---- MODULE Spec2Model ----
(***************************************************************************)
(* Tic-tac-toe with minimax / alpha-beta search (tictactoe.ipynb).         *)
(*                                                                         *)
(* A Board is modelled as a record: `cells` is the dict part of the        *)
(* defaultdict (a function whose DOMAIN is the set of keys present), the   *)
(* other fields are the attributes kept in the instance __dict__.          *)
(* Coordinates are pairs <<x, y>>.                                         *)
(*                                                                         *)
(* A method that could mutate its receiver is modelled as an operator that *)
(* returns both the receiver as it is after the call (`self`) and the      *)
(* returned value (`ret`), so that "the input is left alone" is a         *)
(* property of the model and not an assumption of it.                      *)
(***************************************************************************)
EXTENDS Integers, Sequences, FiniteSets, TLC

VARIABLES game, strategies, state, pc, nmoves, last

vars == <<game, strategies, state, pc, nmoves, last>>

\* ------------------------------------------------------------------------
\* Program constants and bounds

\* Defaults of TicTacToe.__init__(height=3, width=3, k=3).
height == 3
width == 3
k == 3

\* math.inf: any number outside the range of the utilities -1..1 orders the
\* same way against them.
infinity == 2

\* How far outside the board the coordinates handed to result() reach.
Margin == 1

\* The largest k handed to k_in_row() when it is exercised on its own.
MaxK == 3

\* Hash values are kept modulo HashMod; the hash of a string, which the
\* interpreter draws afresh in every process, is any number up to MaxStrHash.
HashMod == 64
MaxStrHash == 1

\* ------------------------------------------------------------------------
\* class Board

empty == "."
off == "#"

\* None is modelled by the empty tuple: it differs from every (value, move)
\* pair, from every square and from every number, and it has no component to
\* subscript.
None == <<>>

\* Board.__init__(width, height, to_move, **kwds): an empty dict whose
\* attributes are width, height, to_move and the keywords.
Board(w, h, to_move, kwds) ==
    kwds @@ [cells |-> <<>>, width |-> w, height |-> h, to_move |-> to_move]

\* dict.update(other): the entries of `other` win over those already there.
Update(cells, other) == other @@ cells

\* Board.new(changes, **kwds): a fresh Board of the same size, updated with
\* self and then with the changes.  self is only read.
\* A slip: self updated in place and handed back.
Board_new_in_place(self, changes, kwds) ==
    LET board == kwds @@ [self EXCEPT !.cells = Update(self.cells, changes)]
    IN  [self |-> board, ret |-> board]

Board_new(self, changes, kwds) ==
    LET board0 == Board(self.width, self.height, None, kwds)
        board1 == [board0 EXCEPT !.cells = Update(board0.cells, self.cells)]
        board2 == [board1 EXCEPT !.cells = Update(board1.cells, changes)]
    IN  [self |-> self, ret |-> board2]

\* Board.__missing__(loc): what a lookup of an absent key gives.
Board_missing(self, loc) ==
    LET x == loc[1]
        y == loc[2]
    IN  IF 0 <= x /\ x < self.width /\ 0 <= y /\ y < self.height
        THEN ToString(y * 3 + x + 1)
        ELSE off

\* board[x, y]
Lookup(board, loc) ==
    IF loc \in DOMAIN board.cells THEN board.cells[loc] ELSE Board_missing(board, loc)

\* len(board)
Len_board(board) == Cardinality(DOMAIN board.cells)

\* board == other: Board defines no __eq__, so this is dict.__eq__, which
\* compares the entries and no attribute.
Board_eq(self, other) == self.cells = other.cells

\* Tuple comparison of two coordinates, as sorted() applies it.
TupleLess(a, b) == a[1] < b[1] \/ (a[1] = b[1] /\ a[2] < b[2])

\* sorted(self.items()): the (key, value) pairs in ascending order of key.
RECURSIVE sorted_items(_)
sorted_items(cells) ==
    IF DOMAIN cells = {}
    THEN <<>>
    ELSE LET first == CHOOSE a \in DOMAIN cells :
                         \A b \in DOMAIN cells : a = b \/ TupleLess(a, b)
         IN  <<<<first, cells[first]>>>>
               \o sorted_items([a \in DOMAIN cells \ {first} |-> cells[a]])

\* hash(n) for a small integer n.
int_hash(n) == IF n = -1 THEN -2 ELSE n

\* hash(t) for a tuple t whose elements hash to hs: every element is mixed
\* into an accumulator, in order.
RECURSIVE tuple_hash_from(_, _)
tuple_hash_from(hs, acc) ==
    IF hs = <<>> THEN acc
    ELSE tuple_hash_from(Tail(hs), (acc * 31 + Head(hs)) % HashMod)

tuple_hash(hs) == tuple_hash_from(hs, Len(hs) + 1)

\* hash(((x, y), value)) for one entry of the board.
item_hash(item, strhash) ==
    tuple_hash(<<tuple_hash(<<int_hash(item[1][1]), int_hash(item[1][2])>>),
                 strhash[item[2]]>>)

\* Board.__hash__: hash(tuple(sorted(self.items()))) + hash(self.to_move)
Board_hash(self, strhash) ==
    LET items == sorted_items(self.cells)
    IN  tuple_hash([i \in 1 .. Len(items) |-> item_hash(items[i], strhash)])
          + strhash[self.to_move]

\* ------------------------------------------------------------------------
\* k_in_row

RECURSIVE in_row(_, _, _, _, _, _)
in_row(board, player, x, y, dx, dy) ==
    IF Lookup(board, <<x, y>>) # player
    THEN 0
    ELSE 1 + in_row(board, player, x + dx, y + dy, dx, dy)

Directions == {<<0, 1>>, <<1, 0>>, <<1, 1>>, <<1, -1>>}

\* A slip: the played square counted twice, once in each direction.
k_in_row_counts_twice(board, player, square, kk) ==
    \E d \in Directions :
        in_row(board, player, square[1], square[2], d[1], d[2])
          + in_row(board, player, square[1], square[2], -d[1], -d[2]) >= kk

k_in_row(board, player, square, kk) ==
    \E d \in Directions :
        in_row(board, player, square[1], square[2], d[1], d[2])
          + in_row(board, player, square[1], square[2], -d[1], -d[2]) - 1 >= kk

\* ------------------------------------------------------------------------
\* class TicTacToe(Game)

TicTacToe(h, w, kk) ==
    [k |-> kk,
     squares |-> (0 .. w - 1) \X (0 .. h - 1),
     initial |-> Board(w, h, "X", [utility |-> 0])]

\* A slip: the taken squares not removed.
actions_all_squares(g, board) == g.squares

actions(g, board) == g.squares \ DOMAIN board.cells

\* A slip: the mover not flipped.
result_same_mover(g, board, square) ==
    LET player == board.to_move
        made == Board_new(board, square :> player, [to_move |-> player])
        win == k_in_row(made.ret, player, square, g.k)
        u == IF ~win THEN 0 ELSE IF player = "X" THEN 1 ELSE -1
    IN  [self |-> made.self,
         ret |-> [cells |-> made.ret.cells, width |-> made.ret.width,
                  height |-> made.ret.height, to_move |-> made.ret.to_move,
                  utility |-> u]]

result(g, board, square) ==
    LET player == board.to_move
        made == Board_new(board, square :> player,
                          [to_move |-> IF player = "X" THEN "O" ELSE "X"])
        win == k_in_row(made.ret, player, square, g.k)
        u == IF ~win THEN 0 ELSE IF player = "X" THEN 1 ELSE -1
    IN  [self |-> made.self,
         ret |-> [cells |-> made.ret.cells, width |-> made.ret.width,
                  height |-> made.ret.height, to_move |-> made.ret.to_move,
                  utility |-> u]]

\* A slip: the cached value handed to either player, the sign not turned for O.
utility_unsigned(g, board, player) == board.utility

utility(g, board, player) ==
    IF player = "X" THEN board.utility ELSE -board.utility

\* A slip: `and` for `or`.
is_terminal_and(g, board) ==
    board.utility # 0 /\ Cardinality(g.squares) = Len_board(board)

\* A slip: the full board forgotten.
is_terminal_won_only(g, board) == board.utility # 0

is_terminal(g, board) ==
    board.utility # 0 \/ Cardinality(g.squares) = Len_board(board)

\* ------------------------------------------------------------------------
\* Iteration over a Python set.  The language leaves the order open; `order`
\* (a sequence holding every square once) stands for the order the set gives.

Enumerate(S, order) == SelectSeq(order, LAMBDA a : a \in S)

RowOrder(g) ==
    [i \in 1 .. g.initial.width * g.initial.height |->
        <<(i - 1) % g.initial.width, (i - 1) \div g.initial.width>>]

MoveToFront(order, a) == <<a>> \o SelectSeq(order, LAMBDA s : s # a)

\* One order per square that can come first.  A loop that keeps the first
\* strict improvement returns, under any order at all, what it returns under
\* one of these.
Orders(g) == {MoveToFront(RowOrder(g), a) : a \in g.squares}

\* ------------------------------------------------------------------------
\* minimax_search
\*
\* The body of each `for action in game.actions(state)` loop has two parts:
\* the utility of the action's result, which does not depend on what the
\* loop has seen so far, and the comparison that keeps the best.  The model
\* keeps the two apart (max_utilities / max_loop) so that the utilities are
\* worked out once for every enumeration order of the root's actions.
\* An inner call hands back only its value ([0]); the order in which it
\* enumerates decides only the move the caller drops, and is the row order.

RECURSIVE max_value(_, _, _, _), min_value(_, _, _, _)

\* Calls through these two functions are the recursive calls of the code;
\* TLC evaluates a function body in the function's own context, which keeps
\* the evaluation of a deep recursion fast.
max_value_call[a \in Any] == max_value(a[1], a[2], a[3], a[4])
min_value_call[a \in Any] == min_value(a[1], a[2], a[3], a[4])
result_call[a \in Any] == result(a[1], a[2], a[3])

UtilityOf(utilities, action) == (CHOOSE p \in utilities : p[1] = action)[2]

max_result_utility(g, player, st, action) ==
    LET res == result_call[<<g, st, action>>].ret
    IN  IF ~is_terminal(g, res)
        THEN min_value_call[<<g, player, res, RowOrder(g)>>][1]
        ELSE utility(g, res, player)

\* A slip: the terminal utility taken for the player to move at this node,
\* not for the player at the root.
min_result_utility_for_mover(g, player, st, action) ==
    LET res == result_call[<<g, st, action>>].ret
    IN  IF ~is_terminal(g, res)
        THEN max_value_call[<<g, player, res, RowOrder(g)>>][1]
        ELSE utility(g, res, st.to_move)

min_result_utility(g, player, st, action) ==
    LET res == result_call[<<g, st, action>>].ret
    IN  IF ~is_terminal(g, res)
        THEN max_value_call[<<g, player, res, RowOrder(g)>>][1]
        ELSE utility(g, res, player)

max_utilities(g, player, st) ==
    {<<action, max_result_utility(g, player, st, action)>> : action \in actions(g, st)}

min_utilities(g, player, st) ==
    {<<action, min_result_utility(g, player, st, action)>> : action \in actions(g, st)}

\* A slip: `>=` for `>`, so that a later action of equal utility replaces
\* the one kept.
RECURSIVE max_loop_keeps_last(_, _, _, _, _)
max_loop_keeps_last(acts, utilities, i, highest_utility, best_action) ==
    IF i > Len(acts)
    THEN <<highest_utility, best_action>>
    ELSE LET result_utility == UtilityOf(utilities, acts[i])
         IN  IF result_utility >= highest_utility
             THEN max_loop_keeps_last(acts, utilities, i + 1, result_utility, acts[i])
             ELSE max_loop_keeps_last(acts, utilities, i + 1, highest_utility, best_action)

RECURSIVE max_loop(_, _, _, _, _)
max_loop(acts, utilities, i, highest_utility, best_action) ==
    IF i > Len(acts)
    THEN <<highest_utility, best_action>>
    ELSE LET result_utility == UtilityOf(utilities, acts[i])
         IN  IF result_utility > highest_utility
             THEN max_loop(acts, utilities, i + 1, result_utility, acts[i])
             ELSE max_loop(acts, utilities, i + 1, highest_utility, best_action)

RECURSIVE min_loop(_, _, _, _, _)
min_loop(acts, utilities, i, lowest_utility, best_action) ==
    IF i > Len(acts)
    THEN <<lowest_utility, best_action>>
    ELSE LET result_utility == UtilityOf(utilities, acts[i])
         IN  IF result_utility < lowest_utility
             THEN min_loop(acts, utilities, i + 1, result_utility, acts[i])
             ELSE min_loop(acts, utilities, i + 1, lowest_utility, best_action)

max_value(g, player, st, order) ==
    max_loop(Enumerate(actions(g, st), order), max_utilities(g, player, st),
             1, -infinity, None)

min_value(g, player, st, order) ==
    min_loop(Enumerate(actions(g, st), order), min_utilities(g, player, st),
             1, infinity, None)

minimax_search(g, st, order) == max_value(g, st.to_move, st, order)

\* Every (value, move) pair minimax_search(g, st, order) can return, over the
\* enumeration orders of the root's actions.
minimax_search_any(g, st) ==
    LET utilities == max_utilities(g, st.to_move, st)
    IN  {max_loop(Enumerate(actions(g, st), order), utilities, 1, -infinity, None) :
            order \in Orders(g)}

\* ------------------------------------------------------------------------
\* alphabeta_search: both inner functions are `pass`, so the search returns
\* what max_value(state, -infinity, +infinity) returns: None.

alphabeta_max_value(st, alpha, beta) == None

alphabeta_min_value(st, alpha, beta) == None

alphabeta_search(g, st) == alphabeta_max_value(st, -infinity, infinity)

\* ------------------------------------------------------------------------
\* Players.  A call is modelled by its outcome: the value returned, or the
\* exception raised.

\* No exception.
NoError == "none"

Return(v) == [raised |-> NoError, ret |-> v]
Raise(e) == [raised |-> e, ret |-> None]

\* player(search_algorithm)(game, state), given what the search returned:
\* search_algorithm(game, state)[1].  Subscripting None raises TypeError.
player(found) == IF found = None THEN Raise("TypeError") ELSE Return(found[2])

\* random_player (and human_player, who is asked again until the square is
\* available): any of the legal moves.
\* random.choice of an empty list raises IndexError.
random_player(g, st) ==
    IF actions(g, st) = {}
    THEN {Raise("IndexError")}
    ELSE {Return(move) : move \in actions(g, st)}

Strategies == {"random_player", "player(minimax_search)", "player(alphabeta_search)"}

\* ------------------------------------------------------------------------
\* State.
\*   game        the TicTacToe object
\*   strategies  the {player_name: function} dict handed to play_game
\*   state       play_game's local `state`
\*   pc          play_game: "loop" while it runs, "returned" once it has
\*               returned `state`, "raised" once a strategy has raised
\*   nmoves      how many times the loop body has run
\*   last        the last call made on the game: who made it (play_game or
\*               a client of the game), the callee, its input board before
\*               and after the call, its other argument, and the outcome
\*               (value returned, exception raised)

NoCall ==
    [by |-> "nobody", op |-> "none", board |-> None, arg |-> None, after |-> None,
     ret |-> None, raised |-> NoError]

Call(by, op, board, arg, after, out) ==
    [by |-> by, op |-> op, board |-> board, arg |-> arg, after |-> after,
     ret |-> out.ret, raised |-> out.raised]

\* play_game up to the loop: state = game.initial
play_game_start(strats) ==
    /\ game = TicTacToe(height, width, k)
    /\ strategies \in strats
    /\ state = game.initial
    /\ pc = "loop"
    /\ nmoves = 0
    /\ last = NoCall

\* One run of the loop body with the move a strategy returned:
\* state = game.result(state, move).
play_game_move(move) ==
    LET made == result(game, state, move)
    IN  /\ state' = made.ret
        /\ nmoves' = nmoves + 1
        /\ last' = Call("play_game", "result", state, move, made.self, Return(made.ret))
        /\ UNCHANGED <<game, strategies, pc>>

\* The loop body when the strategy raises: the exception leaves play_game.
play_game_raise ==
    /\ pc' = "raised"
    /\ UNCHANGED <<game, strategies, state, nmoves, last>>

play_game_step(outcome) ==
    IF outcome.raised = NoError THEN play_game_move(outcome.ret) ELSE play_game_raise

InLoop(strategy) ==
    /\ pc = "loop"
    /\ ~is_terminal(game, state)
    /\ strategies[state.to_move] = strategy

StepRandom ==
    /\ InLoop("random_player")
    /\ \E outcome \in random_player(game, state) : play_game_step(outcome)

StepMinimax ==
    /\ InLoop("player(minimax_search)")
    /\ \E found \in minimax_search_any(game, state) : play_game_step(player(found))

StepAlphabeta ==
    /\ InLoop("player(alphabeta_search)")
    /\ play_game_step(player(alphabeta_search(game, state)))

\* while not game.is_terminal(state) ends; return state
ReturnState ==
    /\ pc = "loop"
    /\ is_terminal(game, state)
    /\ pc' = "returned"
    /\ UNCHANGED <<game, strategies, state, nmoves, last>>

Init == play_game_start([{"X", "O"} -> Strategies])

Next == StepRandom \/ StepMinimax \/ StepAlphabeta \/ ReturnState

Spec == Init /\ [][Next]_vars

\* ------------------------------------------------------------------------
\* Legal play alone: play_game with a random_player on either side, which
\* reaches every state that legal moves made from non-terminal states reach.

InitPlay == play_game_start({[p \in {"X", "O"} |-> "random_player"]})

NextPlay == StepRandom \/ ReturnState

SpecPlay == InitPlay /\ [][NextPlay]_vars

\* play_game is sequential code that nothing suspends: a step of the loop
\* that can be taken is taken.  Whatever strategies return legal moves, the
\* play they drive is one of the plays of two random_players.
SpecPlayFair == InitPlay /\ [][NextPlay]_vars /\ WF_vars(NextPlay)

\* ------------------------------------------------------------------------
\* The game's methods called directly, on the state play_game has reached,
\* with any argument: the square handed to result() need not be a legal move,
\* and utility() is asked at any state.  A direct call changes nothing but
\* `last`, so one call after each step of play_game reaches every call on
\* every state.

ClientMayCall == last.by # "client"

MoveInputs ==
    ((-Margin) .. (width - 1 + Margin)) \X ((-Margin) .. (height - 1 + Margin))

CallResult ==
    \E square \in MoveInputs :
        LET made == result(game, state, square)
        IN  /\ ClientMayCall
            /\ last' = Call("client", "result", state, square, made.self, Return(made.ret))
            /\ UNCHANGED <<game, strategies, state, pc, nmoves>>

CallUtility ==
    \E who \in {"X", "O"} :
        /\ ClientMayCall
        /\ last' = Call("client", "utility", state, who, state,
                        Return(utility(game, state, who)))
        /\ UNCHANGED <<game, strategies, state, pc, nmoves>>

InitApi == play_game_start({[p \in {"X", "O"} |-> "random_player"]})

NextApi == StepRandom \/ ReturnState \/ CallResult \/ CallUtility

SpecApi == InitApi /\ [][NextApi]_vars

\* ------------------------------------------------------------------------
\* k_in_row called on its own: any filling of the board, either player, any
\* square of the board, any k up to MaxK.

AnyCells(g) == UNION {[S -> {"X", "O"}] : S \in SUBSET g.squares}

CallKInRow ==
    \E who \in {"X", "O"}, square \in game.squares, kk \in 1 .. MaxK :
        /\ ClientMayCall
        /\ last' = Call("client", "k_in_row", state, <<who, square, kk>>, state,
                        Return(k_in_row(state, who, square, kk)))
        /\ UNCHANGED <<game, strategies, state, pc, nmoves>>

InitKInRow ==
    /\ game = TicTacToe(height, width, k)
    /\ strategies = [p \in {"X", "O"} |-> "random_player"]
    /\ state \in {[game.initial EXCEPT !.cells = c] : c \in AnyCells(game)}
    /\ pc = "loop"
    /\ nmoves = 0
    /\ last = NoCall

NextKInRow == CallKInRow

SpecKInRow == InitKInRow /\ [][NextKInRow]_vars

\* ------------------------------------------------------------------------
\* class Board used directly, on the state play_game has reached: a lookup
\* of any coordinate, and a comparison with a Board made by Board.new from
\* that state (no change or the mover's marker on one more square, either
\* player to move).

CallLookup ==
    \E loc \in MoveInputs :
        /\ ClientMayCall
        /\ last' = Call("client", "lookup", state, loc, state,
                        Return(Lookup(state, loc)))
        /\ UNCHANGED <<game, strategies, state, pc, nmoves>>

Changes(g, board) ==
    {<<>>} \cup {sq :> board.to_move : sq \in actions(g, board)}

StrHashes == [{"X", "O"} -> 0 .. MaxStrHash]

CallCompare ==
    \E changes \in Changes(game, state), to_move \in {"X", "O"},
       strhash \in StrHashes :
        LET other == Board_new(state, changes, [to_move |-> to_move]).ret
        IN  /\ ClientMayCall
            /\ last' = Call("client", "eq_hash", state, other, state,
                            Return(<<Board_eq(state, other),
                                     Board_hash(state, strhash),
                                     Board_hash(other, strhash)>>))
            /\ UNCHANGED <<game, strategies, state, pc, nmoves>>

InitBoard == play_game_start({[p \in {"X", "O"} |-> "random_player"]})

NextBoard == StepRandom \/ ReturnState \/ CallLookup

SpecBoard == InitBoard /\ [][NextBoard]_vars

InitCompare == play_game_start({[p \in {"X", "O"} |-> "random_player"]})

NextCompare == StepRandom \/ ReturnState \/ CallCompare

SpecCompare == InitCompare /\ [][NextCompare]_vars

\* ------------------------------------------------------------------------
\* minimax_search called directly on the state play_game has reached, under
\* any enumeration order of the root's actions, and min_value as max_value
\* calls it on the result of the root's action.
\*
\* The record of a call of minimax_search holds the (value, move) pair found,
\* the result_utility the loop saw for each action, the input state as the
\* call leaves it, and what a second call on that state finds.

\* The input state as the root's loop leaves it: game.result(state, action)
\* is called on that object once for every action.
RECURSIVE after_loop(_, _, _, _)
after_loop(g, st, acts, i) ==
    IF i > Len(acts)
    THEN st
    ELSE after_loop(g, result_call[<<g, st, acts[i]>>].self, acts, i + 1)

\* A slip: the best so far starts at -1, the lowest utility, not below it.
max_value_calls_from_lowest(g, st) ==
    LET utilities == max_utilities(g, st.to_move, st)
        after == after_loop(g, st, Enumerate(actions(g, st), RowOrder(g)), 1)
    IN  {[order |-> order,
          utilities |-> utilities,
          found |-> max_loop(Enumerate(actions(g, st), order), utilities, 1, -1, None),
          after |-> after,
          again |-> max_loop(Enumerate(actions(g, st), order), utilities, 1, -1, None)] :
            order \in Orders(g)}

\* The search reads nothing but the game and the state, so a second call on
\* a state the first call left as it was sees the same utilities; they are
\* worked out again only when the state has changed.  The second call
\* enumerates in the row order.
max_value_calls(g, st) ==
    LET utilities == max_utilities(g, st.to_move, st)
        after == after_loop(g, st, Enumerate(actions(g, st), RowOrder(g)), 1)
        utilities_again ==
            IF after = st THEN utilities ELSE max_utilities(g, after.to_move, after)
    IN  {[order |-> order,
          utilities |-> utilities,
          found |-> max_loop(Enumerate(actions(g, st), order), utilities,
                             1, -infinity, None),
          after |-> after,
          again |-> max_loop(Enumerate(actions(g, after), RowOrder(g)),
                             utilities_again, 1, -infinity, None)] :
            order \in Orders(g)}

min_value_calls(g, root_player, st) ==
    LET utilities == min_utilities(g, root_player, st)
    IN  {[order |-> order,
          utilities |-> utilities,
          found |-> min_loop(Enumerate(actions(g, st), order), utilities,
                             1, infinity, None)] :
            order \in Orders(g)}

CallMinimax ==
    /\ ClientMayCall
    /\ \E call \in max_value_calls(game, state) :
        /\ last' = Call("client", "minimax_search", state, call.order, call.after,
                        Return([found |-> call.found, utilities |-> call.utilities,
                                again |-> call.again]))
        /\ UNCHANGED <<game, strategies, state, pc, nmoves>>

\* min_value(result) as max_value calls it: `state` is the result of the
\* move play_game has just made from last.board, it is not terminal, and
\* the search is the one rooted at last.board, for the player to move there.
CallMinValue ==
    /\ ClientMayCall
    /\ last.by = "play_game"
    /\ ~is_terminal(game, state)
    /\ \E call \in min_value_calls(game, last.board.to_move, state) :
        /\ last' = Call("client", "min_value", state, call.order, state,
                        Return([found |-> call.found, utilities |-> call.utilities]))
        /\ UNCHANGED <<game, strategies, state, pc, nmoves>>

\* The depth of the stack of max_value / min_value frames under a call of
\* either on st: the frame itself, and below it the deepest of the calls the
\* loop makes, one for every action whose result is not terminal.
RECURSIVE recursion_depth(_, _)

recursion_depth_call[a \in Any] == recursion_depth(a[1], a[2])

Deepest(depths) == CHOOSE d \in depths : \A e \in depths : e <= d

recursion_depth(g, st) ==
    LET results == {result_call[<<g, st, action>>].ret : action \in actions(g, st)}
    IN  1 + Deepest({0} \cup {recursion_depth_call[<<g, res>>] :
                                res \in {r \in results : ~is_terminal(g, r)}})

\* minimax_search called directly, enumerating in the row order, with the
\* depth its recursion reaches.
CallMinimaxTraced ==
    /\ ClientMayCall
    /\ last' = Call("client", "minimax_search", state, RowOrder(game), state,
                    Return([found |-> minimax_search(game, state, RowOrder(game)),
                            depth |-> recursion_depth(game, state)]))
    /\ UNCHANGED <<game, strategies, state, pc, nmoves>>

InitValue == play_game_start({[p \in {"X", "O"} |-> "random_player"]})

NextValue == StepRandom \/ ReturnState \/ CallMinimaxTraced

SpecValue == InitValue /\ [][NextValue]_vars

InitSearch == play_game_start({[p \in {"X", "O"} |-> "random_player"]})

NextSearch == StepRandom \/ ReturnState \/ CallMinimax \/ CallMinValue

SpecSearch == InitSearch /\ [][NextSearch]_vars

\* ------------------------------------------------------------------------
\* player(search_algorithm)(game, state) called directly on the state
\* play_game has reached, for either search algorithm.  The lambda evaluates
\* search_algorithm(game, state) and subscripts what it returns; the record
\* of the call holds the algorithm wrapped and, in `calls`, every call the
\* lambda made of it: its arguments and what it returned.

SearchAlgorithms == {"minimax_search", "alphabeta_search"}

\* What search_algorithm(game, state) can return.
search_results(search_algorithm, g, st) ==
    IF search_algorithm = "minimax_search"
    THEN minimax_search_any(g, st)
    ELSE {alphabeta_search(g, st)}

CallPlayer ==
    /\ ClientMayCall
    /\ \E search_algorithm \in SearchAlgorithms :
        \E found \in search_results(search_algorithm, game, state) :
            /\ last' = Call("client", "player", state,
                            [search_algorithm |-> search_algorithm,
                             calls |-> <<[game |-> game, state |-> state,
                                          found |-> found]>>],
                            state, player(found))
            /\ UNCHANGED <<game, strategies, state, pc, nmoves>>

InitPlayer == play_game_start({[p \in {"X", "O"} |-> "random_player"]})

NextPlayer == StepRandom \/ ReturnState \/ CallPlayer

SpecPlayer == InitPlayer /\ [][NextPlayer]_vars

\* ------------------------------------------------------------------------
\* What the claims speak of, said without the code's own operators.

Players == {"X", "O"}

Other(p) == IF p = "X" THEN "O" ELSE "X"

\* The square holds p's marker.
Holds(board, p, sq) == sq \in DOMAIN board.cells /\ board.cells[sq] = p

Step(sq, d, j) == <<sq[1] + j * d[1], sq[2] + j * d[2]>>

Span == IF width > height THEN width ELSE height

\* The length of the longest contiguous run of p's markers along axis d that
\* passes through sq; 0 when sq does not hold p's marker.
RunThrough(board, p, sq, d) ==
    IF ~Holds(board, p, sq)
    THEN 0
    ELSE LET ahead == {n \in 1 .. Span : \A j \in 1 .. n : Holds(board, p, Step(sq, d, j))}
             back == {n \in 1 .. Span : \A j \in 1 .. n : Holds(board, p, Step(sq, d, -j))}
         IN  Cardinality(back) + 1 + Cardinality(ahead)

\* p has kk contiguous markers along some axis somewhere on the board.
HasLine(g, board, p) ==
    \E sq \in g.squares : \E d \in Directions : RunThrough(board, p, sq, d) >= g.k

SearchPlayers == {"player(minimax_search)", "player(alphabeta_search)"}

\* The lines of the board: every set of k squares in a row along an axis.
Lines ==
    {L \in {{Step(sq, d, j) : j \in 0 .. k - 1} :
                sq \in (0 .. width - 1) \X (0 .. height - 1), d \in Directions} :
        L \subseteq (0 .. width - 1) \X (0 .. height - 1)}

\* The number of markers of p on the board.
Count(board, p) == Cardinality({sq \in DOMAIN board.cells : board.cells[sq] = p})

\* p holds every square of some line.
Won(cells, p) == \E L \in Lines : \A sq \in L : sq \in DOMAIN cells /\ cells[sq] = p

\* The game-theoretic value for p of the position `cells` with `mover` to
\* move: 1, -1 or 0 once the game is over (a line, or no square left), and
\* otherwise the best of the values of the positions one move away, best for
\* p when p moves and worst for p when the opponent moves.
RECURSIVE GameValue(_, _, _)

GameValue_at[a \in Any] == GameValue(a[1], a[2], a[3])

GameValue(cells, mover, p) ==
    IF Won(cells, p) THEN 1
    ELSE IF Won(cells, Other(p)) THEN -1
    ELSE LET free == ((0 .. width - 1) \X (0 .. height - 1)) \ DOMAIN cells
             values == {GameValue_at[<<(sq :> mover) @@ cells, Other(mover), p>>] :
                           sq \in free}
         IN  IF free = {} THEN 0
             ELSE IF mover = p
                  THEN CHOOSE v \in values : \A w \in values : w <= v
                  ELSE CHOOSE v \in values : \A w \in values : v <= w

\* ------------------------------------------------------------------------
\* C1: at every state reached by legal play, alphabeta_search returns a
\* (value, move) pair whose value is the value minimax_search returns.
C1_AlphabetaValueIsMinimaxValue ==
    LET ab == alphabeta_search(game, state)
    IN  /\ ab # None
        /\ Len(ab) = 2
        /\ \A found \in minimax_search_any(game, state) : ab[1] = found[1]

\* C2: when one side plays the moves minimax_search returns, whatever legal
\* moves the other side plays, the terminal state reached is a draw or a win
\* for the searching side: its utility for that side is 0 or 1 and the other
\* side has no line.
C2_MinimaxNeverLoses ==
    \A p \in Players :
        (strategies[p] = "player(minimax_search)" /\ is_terminal(game, state))
        => /\ utility(game, state, p) \in {0, 1}
           /\ ~HasLine(game, state, Other(p))

\* A game the searching side (O) has won against arbitrary play by X.
C2_Witness ==
    /\ pc = "returned"
    /\ strategies = [X |-> "random_player", O |-> "player(minimax_search)"]
    /\ utility(game, state, "O") = 1
    /\ HasLine(game, state, "O")

\* C3: with a search player on both sides (minimax, alpha-beta, or one of
\* each) play_game ends by returning a terminal state of utility 0.
C3_SearchPlayersDraw ==
    (strategies["X"] \in SearchPlayers /\ strategies["O"] \in SearchPlayers
        /\ pc # "loop")
    => (pc = "returned" /\ is_terminal(game, state) /\ state.utility = 0)

\* Part of C3 that the code keeps: minimax against minimax is a draw.
MinimaxVsMinimaxDraws ==
    (strategies["X"] = "player(minimax_search)"
        /\ strategies["O"] = "player(minimax_search)" /\ pc # "loop")
    => (pc = "returned" /\ is_terminal(game, state) /\ state.utility = 0)

\* C4: result(state, move) with a move that is not in actions(state) raises
\* InvalidMove, creates no state and leaves the input state as it was.
C4_ResultRejectsIllegalMove ==
    (last.op = "result" /\ last.arg \notin actions(game, last.board))
    => (last.raised = "InvalidMove" /\ last.ret = None /\ last.after = last.board)

\* C5: k_in_row(board, player, square, k) is true when, along some axis, the
\* square lies in a contiguous run of at least k of the player's markers, and
\* false when along every axis the longest such run has length k-1 or less.
C5_KInRowFindsRuns ==
    last.op = "k_in_row" =>
        LET p == last.arg[1]
            sq == last.arg[2]
            kk == last.arg[3]
        IN  /\ (\E d \in Directions : RunThrough(last.board, p, sq, d) >= kk)
                  => last.ret = TRUE
            /\ (\A d \in Directions : RunThrough(last.board, p, sq, d) <= kk - 1)
                  => last.ret = FALSE

\* A win found on the rising diagonal, from the middle square of a run of 3.
C5_Witness ==
    /\ last.op = "k_in_row"
    /\ last.arg[2] = <<1, 1>>
    /\ last.arg[3] = 3
    /\ RunThrough(last.board, last.arg[1], <<1, 1>>, <<1, -1>>) = 3
    /\ last.ret = TRUE

\* C6: at every terminal state reached by legal play the utility for X is
\* the negation of the utility for O, and so is every value utility() gave.
C6_ZeroSum ==
    is_terminal(game, state) =>
        /\ utility(game, state, "X") = -utility(game, state, "O")
        /\ (last.op = "utility" /\ last.board = state)
              => last.ret = -utility(game, state, Other(last.arg))

\* utility() asked for O at a terminal state that O has won.
C6_Witness ==
    /\ last.op = "utility"
    /\ last.board = state
    /\ is_terminal(game, state)
    /\ last.arg = "O"
    /\ last.ret = 1

\* C7: a state with every square filled and no line for either symbol is
\* terminal and has utility 0 for X and for O.
C7_FullBoardWithoutLineIsDraw ==
    (/\ \A sq \in game.squares : Holds(state, "X", sq) \/ Holds(state, "O", sq)
     /\ ~HasLine(game, state, "X")
     /\ ~HasLine(game, state, "O"))
    => /\ is_terminal(game, state)
       /\ utility(game, state, "X") = 0
       /\ utility(game, state, "O") = 0

\* play_game has returned a full board on which nobody has a line.
C7_Witness ==
    /\ pc = "returned"
    /\ \A sq \in game.squares : Holds(state, "X", sq) \/ Holds(state, "O", sq)
    /\ ~HasLine(game, state, "X")
    /\ ~HasLine(game, state, "O")

\* C8: after n legal moves actions(state) is the set of squares of the board
\* that hold no marker, and has width*height - n elements: 9 at the initial
\* state, 8 after X has played the centre, a state that is not terminal.
C8_ActionsAreTheUnfilledSquares ==
    LET acts == actions(game, state)
    IN  /\ acts = {sq \in (0 .. width - 1) \X (0 .. height - 1) :
                      ~Holds(state, "X", sq) /\ ~Holds(state, "O", sq)}
        /\ Cardinality(acts) = width * height - nmoves
        /\ nmoves = 0 => Cardinality(acts) = 9
        /\ (nmoves = 1 /\ Holds(state, "X", <<1, 1>>))
              => (Cardinality(acts) = 8 /\ ~is_terminal(game, state))

\* X has just played the centre.
C8_Witness ==
    /\ nmoves = 1
    /\ last.op = "result"
    /\ last.arg = <<1, 1>>
    /\ Holds(state, "X", <<1, 1>>)
    /\ Cardinality(actions(game, state)) = 8

\* C9 as claimed: utility(state, player) on a state that is not terminal
\* raises PreconditionViolation.
C9_UtilityRejectsNonTerminal ==
    (last.op = "utility" /\ ~is_terminal(game, last.board))
    => last.raised = "PreconditionViolation"

\* C9 as amended: utility(state, player) on a state that is not terminal
\* raises nothing and returns 0, for either player.
C9_UtilityOfNonTerminalIsZero ==
    (last.op = "utility" /\ ~is_terminal(game, last.board))
    => (last.raised = NoError /\ last.ret = 0)

\* utility() asked for O in the middle of a game.
C9_Witness ==
    /\ last.op = "utility"
    /\ last.arg = "O"
    /\ nmoves = 3
    /\ ~is_terminal(game, last.board)
    /\ last.ret = 0

\* C10: result(state, move) leaves its input as it was (occupancy, to_move,
\* utility), and for a move on a square not yet in the occupancy the state
\* returned holds the input's entries and one more, move -> the input's mover.
C10_ResultLeavesInputAlone ==
    last.op = "result" =>
        /\ last.after.cells = last.board.cells
        /\ last.after.to_move = last.board.to_move
        /\ last.after.utility = last.board.utility
        /\ last.arg \notin DOMAIN last.board.cells =>
              /\ DOMAIN last.ret.cells = DOMAIN last.board.cells \cup {last.arg}
              /\ Cardinality(DOMAIN last.ret.cells)
                    = Cardinality(DOMAIN last.board.cells) + 1
              /\ last.ret.cells[last.arg] = last.board.to_move
              /\ \A sq \in DOMAIN last.board.cells :
                    last.ret.cells[sq] = last.board.cells[sq]

\* result() applied to a legal move on a board that holds markers already.
C10_Witness ==
    /\ last.op = "result"
    /\ last.arg \in actions(game, last.board)
    /\ Cardinality(DOMAIN last.board.cells) = 4
    /\ last.after = last.board
    /\ Cardinality(DOMAIN last.ret.cells) = 5

\* C11: a lookup of an in-bounds coordinate that holds no marker gives the
\* one empty marker, and a lookup of an out-of-bounds coordinate gives the
\* off-board marker, which is neither the empty marker nor a player's symbol.
C11_LookupGivesEmptyOrOff ==
    last.op = "lookup" =>
        LET inside == last.arg \in game.squares
        IN  /\ (inside /\ last.arg \notin DOMAIN last.board.cells)
                  => last.ret = empty
            /\ ~inside => (last.ret = off /\ off \notin {empty, "X", "O"})

\* Part of C11 that the code keeps: the off-board half.
LookupOffBoardGivesOff ==
    (last.op = "lookup" /\ last.arg \notin game.squares)
    => (last.ret = off /\ off \notin {empty, "X", "O"})

\* C12: two Boards compare equal exactly when they have the same occupancy
\* and the same player to move, and two Boards that compare equal have the
\* same hash.
C12_EqualIffSameOccupancyAndMover ==
    last.op = "eq_hash" =>
        /\ last.ret[1] <=> (/\ last.board.cells = last.arg.cells
                            /\ last.board.to_move = last.arg.to_move)
        /\ last.ret[1] => last.ret[2] = last.ret[3]

\* Part of C12 that the code keeps: Boards of the same occupancy and the
\* same player to move compare equal and have the same hash.
SameOccupancyAndMoverAreEqual ==
    (/\ last.op = "eq_hash"
     /\ last.board.cells = last.arg.cells
     /\ last.board.to_move = last.arg.to_move)
    => (last.ret[1] /\ last.ret[2] = last.ret[3])

\* C13: minimax_search(game, state) leaves the state it was given (occupancy,
\* to_move, utility) and the game (squares, k, initial state) as they were,
\* and a second call on the same state returns the same value.
C13_MinimaxHasNoSideEffect ==
    last.op = "minimax_search" =>
        /\ last.after.cells = last.board.cells
        /\ last.after.to_move = last.board.to_move
        /\ last.after.utility = last.board.utility
        /\ game = TicTacToe(height, width, k)
        /\ last.ret.again[1] = last.ret.found[1]

\* minimax_search called in the middle of a game, with O to move, under an
\* enumeration order other than that of the second call.
C13_Witness ==
    /\ last.op = "minimax_search"
    /\ nmoves = 3
    /\ last.board.to_move = "O"
    /\ last.arg # RowOrder(game)
    /\ last.ret.again[2] # last.ret.found[2]
    /\ last.after = state

\* The utilities a loop saw, and the first action of an enumeration whose
\* utility is v.
UtilitiesSeen(utilities) == {p[2] : p \in utilities}

FirstWith(acts, utilities, v) ==
    acts[CHOOSE i \in 1 .. Len(acts) :
            /\ UtilityOf(utilities, acts[i]) = v
            /\ \A j \in 1 .. i - 1 : UtilityOf(utilities, acts[j]) # v]

\* C16: for a fixed enumeration order of actions(state), max_value returns
\* the greatest utility of the results together with the first action of
\* the enumeration that attains it, and min_value the least utility
\* together with the first action that attains it.
C16_FirstBestActionIsKept ==
    LET acts == Enumerate(actions(game, last.board), last.arg)
        seen == UtilitiesSeen(last.ret.utilities)
    IN  /\ (last.op = "minimax_search" /\ acts # <<>>) =>
              LET highest == CHOOSE v \in seen : \A w \in seen : w <= v
              IN  last.ret.found = <<highest, FirstWith(acts, last.ret.utilities, highest)>>
        /\ last.op = "min_value" =>
              LET lowest == CHOOSE v \in seen : \A w \in seen : v <= w
              IN  last.ret.found = <<lowest, FirstWith(acts, last.ret.utilities, lowest)>>

\* A max level at which two actions attain the maximum, enumerated in an
\* order other than the row order; the action kept is the first of that order.
C16_Witness ==
    /\ last.op = "minimax_search"
    /\ nmoves = 2
    /\ Cardinality({p \in last.ret.utilities : p[2] = last.ret.found[1]}) >= 2
    /\ last.arg # RowOrder(game)
    /\ last.ret.found[2] = last.arg[1]
    /\ Cardinality(UtilitiesSeen(last.ret.utilities)) >= 2

\* C18: on a state that is not terminal minimax_search returns a value among
\* -1, 0, 1 and a move that is one of actions(state), never None, so that
\* player(minimax_search) returns a legal move.
C18_MinimaxReturnsLegalMove ==
    (last.op = "minimax_search" /\ ~is_terminal(game, last.board)) =>
        /\ last.ret.found[1] \in {-1, 0, 1}
        /\ last.ret.found[2] # None
        /\ last.ret.found[2] \in actions(game, last.board)
        /\ player(last.ret.found) = Return(last.ret.found[2])
        /\ player(last.ret.found).ret \in actions(game, last.board)

\* minimax_search called where the player to move loses whatever the move.
C18_Witness ==
    /\ last.op = "minimax_search"
    /\ ~is_terminal(game, last.board)
    /\ last.ret.found[1] = -1
    /\ last.ret.found[2] \in actions(game, last.board)

\* C17: minimax_search called on any state reached by legal play runs to
\* completion, and the depth of its recursion is at most the number of
\* unfilled squares of that state (at most width * height): the calls
\* nested in the first max_value are fewer than the unfilled squares, and on
\* a state that is not terminal the whole stack, the first frame included,
\* is no deeper than the unfilled squares are many.
C17_MinimaxTerminatesWithinDepth ==
    (last.op = "minimax_search" /\ "depth" \in DOMAIN last.ret) =>
        LET unfilled == Cardinality({sq \in game.squares :
                            ~Holds(last.board, "X", sq) /\ ~Holds(last.board, "O", sq)})
        IN  /\ last.raised = NoError
            /\ Len(last.ret.found) = 2
            /\ unfilled <= width * height
            /\ last.ret.depth - 1 <= unfilled
            /\ ~is_terminal(game, last.board) => last.ret.depth <= unfilled

\* The search from the empty board, whose recursion goes as deep as there
\* are squares.
C17_Witness ==
    /\ last.op = "minimax_search"
    /\ "depth" \in DOMAIN last.ret
    /\ nmoves = 0
    /\ last.ret.depth = width * height

\* C14: on every state reached by legal play that is not terminal, with X or
\* with O to move, the value minimax_search returns is the game-theoretic
\* value of the state for the player to move there.
C14_MinimaxValueIsGameValue ==
    (/\ last.op = "minimax_search"
     /\ "depth" \in DOMAIN last.ret
     /\ ~is_terminal(game, last.board))
    => last.ret.found[1]
         = GameValue(last.board.cells, last.board.to_move, last.board.to_move)

\* The search called with O to move on a state that O wins by force.
C14_Witness ==
    /\ last.op = "minimax_search"
    /\ "depth" \in DOMAIN last.ret
    /\ ~is_terminal(game, last.board)
    /\ last.board.to_move = "O"
    /\ nmoves = 3
    /\ last.ret.found[1] = 1

\* C15: in every state reached by legal play the cached utility, worked out
\* at the square just played only, is what a scan of the whole board gives:
\* 1 exactly when X has k markers in a row somewhere, -1 exactly when O has,
\* 0 otherwise; X and O never both have such a row.
C15_CachedUtilityIsFullScan ==
    /\ state.utility = 1 <=> HasLine(game, state, "X")
    /\ state.utility = -1 <=> HasLine(game, state, "O")
    /\ state.utility = 0 <=> (~HasLine(game, state, "X") /\ ~HasLine(game, state, "O"))
    /\ ~(HasLine(game, state, "X") /\ HasLine(game, state, "O"))
    /\ \A p \in Players : HasLine(game, state, p) <=> Won(state.cells, p)

\* O has completed a row with a move on a square in the middle of it.
C15_Witness ==
    /\ last.by = "play_game"
    /\ last.op = "result"
    /\ last.ret = state
    /\ last.arg = <<1, 1>>
    /\ last.board.to_move = "O"
    /\ state.utility = -1
    /\ HasLine(game, state, "O")

\* C19: in every state reached by legal play there are as many X as O
\* markers or one X more; X is to move exactly when they are as many and O
\* exactly when X has one more.
C19_MarkersAlternate ==
    LET diff == Count(state, "X") - Count(state, "O")
    IN  /\ diff \in {0, 1}
        /\ state.to_move = "X" <=> diff = 0
        /\ state.to_move = "O" <=> diff = 1
        /\ Count(state, "X") + Count(state, "O") = nmoves

\* Three moves made: two X, one O, O to move.
C19_Witness ==
    /\ nmoves = 3
    /\ Count(state, "X") = 2
    /\ Count(state, "O") = 1
    /\ state.to_move = "O"
    /\ last.op = "result"

\* The game is over on this board: a line for X or for O, or no square left.
GameOver(board) ==
    \/ Won(board.cells, "X")
    \/ Won(board.cells, "O")
    \/ \A sq \in (0 .. width - 1) \X (0 .. height - 1) : sq \in DOMAIN board.cells

\* C20: with strategies that return legal moves play_game makes at most
\* width * height moves, never makes a move from a terminal state, raises
\* nothing, and in the end returns a state, which is terminal.
C20_PlayGameEndsInTerminalState ==
    /\ [](nmoves <= width * height)
    /\ [](pc # "raised")
    /\ [](pc = "returned" => (is_terminal(game, state) /\ GameOver(state)))
    /\ [][state' # state => (~is_terminal(game, state) /\ ~GameOver(state))]_vars
    /\ <>(pc = "returned")

\* A game returned after the ninth move, won by X with that move.
C20_Witness ==
    /\ pc = "returned"
    /\ nmoves = width * height
    /\ is_terminal(game, state)
    /\ state.utility = 1

\* C21: for every search algorithm s, player(s)(game, state) calls s once,
\* on that game and that state, and returns the move of the (value, move)
\* pair s returned, raising nothing.
C21_PlayerReturnsTheMoveFound ==
    last.op = "player" =>
        /\ Len(last.arg.calls) = 1
        /\ last.arg.calls[1].game = game
        /\ last.arg.calls[1].state = last.board
        /\ Len(last.arg.calls[1].found) = 2
        /\ last.raised = NoError
        /\ last.ret = last.arg.calls[1].found[2]
        /\ last.after = last.board

\* Part of C21 that the code keeps: whenever the search algorithm returns a
\* pair, as minimax_search does, the wrapper calls it once and returns the
\* move of the pair.
PlayerOfAPairReturnsTheMove ==
    (last.op = "player" /\ last.arg.calls[1].found # None) =>
        /\ last.arg.search_algorithm = "minimax_search"
        /\ Len(last.arg.calls) = 1
        /\ last.arg.calls[1].game = game
        /\ last.arg.calls[1].state = last.board
        /\ last.raised = NoError
        /\ last.ret = last.arg.calls[1].found[2]
        /\ last.after = last.board

\* player(alphabeta_search) raises TypeError whatever the state.
PlayerOfAlphabetaRaises ==
    (last.op = "player" /\ last.arg.search_algorithm = "alphabeta_search") =>
        /\ last.arg.calls[1].found = None
        /\ last.raised = "TypeError"
        /\ last.ret = None

====
